---- MODULE Spec2Model ----
(***************************************************************************)
(* Model of the Flask application in app.py and of the way test_app.py     *)
(* drives it.  The module body builds the application object and registers *)
(* one route, "/", bound to the view function home.  Loaded as the main    *)
(* program it then calls app.run(host="0.0.0.0", port=5000); imported (as  *)
(* test_app.py does) it does not, and requests reach the application       *)
(* through app.test_client() instead of a socket.                          *)
(*                                                                         *)
(* A request is handled in two steps, as Flask's wsgi_app does: the        *)
(* request context is pushed, which matches the URL against the route      *)
(* table, then the request is dispatched to the view and the return value  *)
(* is turned into the response that is sent (Dispatch).                    *)
(* Strings that are sent are sequences of byte values; text is a sequence  *)
(* of code points.                                                         *)
(***************************************************************************)
EXTENDS Integers, Sequences, FiniteSets, TLC

VARIABLES name, bindEnv, pc, sock, exitCode, url_map, reqs, seen

vars == <<name, bindEnv, pc, sock, exitCode, url_map, reqs, seen>>

(* Number of requests the threaded server may be handling at once. *)
MaxInFlight == 2

Slots == 1..MaxInFlight

Methods == {"GET", "HEAD", "OPTIONS", "POST"}

Paths == {"/", "/missing"}

None == [none |-> TRUE]

----------------------------------------------------------------------------
(* app.py line 16: the arguments of app.run *)

host_loopback == "127.0.0.1"

host == "0.0.0.0"

port == 5000

(* app.py line 15: the guard in front of app.run *)
IsMain_unguarded == TRUE

IsMain == name = "__main__"

----------------------------------------------------------------------------
(* app.py lines 11-13: the view function and its registration *)

(* "Hello World!" followed by a line feed *)
home_newline == <<72, 101, 108, 108, 111, 32, 87, 111, 114, 108, 100, 33, 10>>

(* A view that greets differently once an exchange has been recorded. *)
home_remembering ==
    IF seen = None
    THEN <<72, 101, 108, 108, 111, 32, 87, 111, 114, 108, 100, 33>>
    ELSE <<72, 101, 108, 108, 111, 32, 97, 103, 97, 105, 110, 33>>

(* return "Hello World!" : the code points of the returned str *)
home == <<72, 101, 108, 108, 111, 32, 87, 111, 114, 108, 100, 33>>

RouteMethods_withPost == {"GET", "POST", "HEAD", "OPTIONS"}

(* @app.route("/") with no methods argument: GET, to which the rule adds *)
(* HEAD and the application adds OPTIONS (provide_automatic_options).    *)
RouteMethods == {"GET", "HEAD", "OPTIONS"}

RouteTable_catchAll ==
    {[rule |-> p, methods |-> RouteMethods, endpoint |-> "home"] : p \in Paths}

(* The route table after the module body has run: one rule. *)
RouteTable == {[rule |-> "/", methods |-> RouteMethods, endpoint |-> "home"]}

----------------------------------------------------------------------------
(* The framework steps the decorated view is run by *)

RECURSIVE Utf8Encode(_)
(* str -> bytes, as the response object encodes a str return value *)
Utf8Encode(s) ==
    IF s = <<>> THEN <<>>
    ELSE LET c == Head(s)
             b == IF c < 128 THEN <<c>>
                  ELSE IF c < 2048
                       THEN <<192 + (c \div 64), 128 + (c % 64)>>
                       ELSE IF c < 65536
                            THEN <<224 + (c \div 4096),
                                   128 + ((c \div 64) % 64),
                                   128 + (c % 64)>>
                            ELSE <<240 + (c \div 262144),
                                   128 + ((c \div 4096) % 64),
                                   128 + ((c \div 64) % 64),
                                   128 + (c % 64)>>
         IN b \o Utf8Encode(Tail(s))

MatchRequest_exactPair(map, m, p) ==
    IF \E r \in map : r.rule = p /\ m = "GET"
    THEN [endpoint |-> (CHOOSE r \in map : r.rule = p).endpoint, exc |-> 0]
    ELSE [endpoint |-> "", exc |-> 404]

(* URL matching: a rule whose path matches and whose methods hold the     *)
(* request method gives its endpoint; a path that matches only rules with *)
(* other methods is MethodNotAllowed (405); no matching path is NotFound  *)
(* (404).                                                                 *)
MatchRequest(map, m, p) ==
    IF \E r \in map : r.rule = p /\ m \in r.methods
    THEN [endpoint |-> (CHOOSE r \in map : r.rule = p /\ m \in r.methods).endpoint,
          exc |-> 0]
    ELSE IF \E r \in map : r.rule = p
         THEN [endpoint |-> "", exc |-> 405]
         ELSE [endpoint |-> "", exc |-> 404]

RECURSIVE Digits(_)
Digits(n) == IF n < 10 THEN <<48 + n>> ELSE Digits(n \div 10) \o <<48 + (n % 10)>>

(* The default error page of an HTTP exception: fixed text that depends *)
(* on the status code alone (here, the code's digits).                   *)
ErrorPage(code) == Digits(code)

FullDispatch_raising(m, match) ==
    IF match.exc # 0
    THEN [status |-> match.exc, body |-> ErrorPage(match.exc), invoked |-> FALSE]
    ELSE [status |-> 500, body |-> ErrorPage(500), invoked |-> TRUE]

(* Dispatch of a matched request and the response that is sent:           *)
(* a routing exception becomes its error response; OPTIONS is answered    *)
(* automatically without calling the view; otherwise the view is called,  *)
(* its str is encoded with status 200, and the body is left out of the    *)
(* response to a HEAD request.                                            *)
FullDispatch(m, match) ==
    IF match.exc # 0
    THEN [status |-> match.exc,
          body |-> IF m = "HEAD" THEN <<>> ELSE ErrorPage(match.exc),
          invoked |-> FALSE]
    ELSE IF m = "OPTIONS"
         THEN [status |-> 200, body |-> <<>>, invoked |-> FALSE]
         ELSE LET rv == home
              IN [status |-> 200,
                  body |-> IF m = "HEAD" THEN <<>> ELSE Utf8Encode(rv),
                  invoked |-> TRUE]

----------------------------------------------------------------------------
(* State *)

Idle == [stage |-> "idle"]

(* The request context pushed for a request: the request and the result *)
(* of matching its URL, kept for the dispatch that follows.             *)
RequestContext(m, p) ==
    [stage |-> "matched", method |-> m, path |-> p,
     match |-> MatchRequest(url_map, m, p)]

Ctx_shared(i) == reqs[CHOOSE j \in Slots : reqs[j].stage = "matched"]

(* The request context a slot's dispatch works on: its own. *)
Ctx(i) == reqs[i]

Init ==
    /\ name \in {"__main__", "app"}
    /\ bindEnv \in {"ok", "in_use", "denied"}
    /\ pc = "boot"
    /\ sock = None
    /\ exitCode = <<>>
    /\ url_map = RouteTable
    /\ reqs = [i \in Slots |-> Idle]
    /\ seen = None

----------------------------------------------------------------------------
(* Process steps *)

(* Line 15 is false: the import finishes and the importer goes on. *)
ImportDone ==
    /\ pc = "boot"
    /\ ~IsMain
    /\ pc' = "imported"
    /\ UNCHANGED <<name, bindEnv, sock, exitCode, url_map, reqs, seen>>

Run_swallowBindError ==
    /\ pc = "boot"
    /\ IsMain
    /\ pc' = "serving"
    /\ sock' = IF bindEnv = "ok" THEN [host |-> host, port |-> port] ELSE None
    /\ UNCHANGED <<name, bindEnv, exitCode, url_map, reqs, seen>>

(* Line 16: app.run binds the socket and serves, or the bind fails and *)
(* the process exits with status 1.                                    *)
Run ==
    /\ pc = "boot"
    /\ IsMain
    /\ IF bindEnv = "ok"
       THEN /\ sock' = [host |-> host, port |-> port]
            /\ pc' = "serving"
            /\ UNCHANGED exitCode
       ELSE /\ pc' = "exited"
            /\ exitCode' = <<1>>
            /\ UNCHANGED sock
    /\ UNCHANGED <<name, bindEnv, url_map, reqs, seen>>

(* A signal from outside ends the serving process. *)
Terminate ==
    /\ pc = "serving"
    /\ pc' = "terminated"
    /\ sock' = None
    /\ UNCHANGED <<name, bindEnv, exitCode, url_map, reqs, seen>>

----------------------------------------------------------------------------
(* Request steps *)

(* A connection is accepted on the listening socket by a thread of its *)
(* own, which pushes the request context (and so matches the URL).     *)
ReceiveSocket(i, m, p) ==
    /\ pc = "serving"
    /\ sock # None
    /\ reqs[i] = Idle
    /\ reqs' = [reqs EXCEPT ![i] = RequestContext(m, p)]
    /\ UNCHANGED <<name, bindEnv, pc, sock, exitCode, url_map, seen>>

(* app.test_client().open(...): a synchronous call in the importing *)
(* process, one request at a time, no socket.                       *)
ReceiveTest(m, p) ==
    /\ pc = "imported"
    /\ \A j \in Slots : reqs[j] = Idle
    /\ reqs' = [reqs EXCEPT ![1] = RequestContext(m, p)]
    /\ UNCHANGED <<name, bindEnv, pc, sock, exitCode, url_map, seen>>

(* The matched request is dispatched and its response is sent. *)
Dispatch(i) ==
    /\ pc \in {"serving", "imported"}
    /\ reqs[i].stage = "matched"
    /\ LET ctx == Ctx(i)
           resp == FullDispatch(ctx.method, ctx.match)
       IN reqs' = [reqs EXCEPT ![i] =
                     [stage |-> "done", method |-> reqs[i].method,
                      path |-> reqs[i].path, status |-> resp.status,
                      body |-> resp.body, invoked |-> resp.invoked]]
    /\ UNCHANGED <<name, bindEnv, pc, sock, exitCode, url_map, seen>>

(* The exchange is over: request and response are dropped by the        *)
(* program.  seen is the observer's note of one earlier exchange, taken *)
(* (or not) as an exchange ends; the program never reads it.            *)
Discard(i) ==
    /\ reqs[i].stage = "done"
    /\ reqs' = [reqs EXCEPT ![i] = Idle]
    /\ seen' \in IF seen = None
                 THEN {None, [method |-> reqs[i].method, path |-> reqs[i].path,
                              status |-> reqs[i].status, body |-> reqs[i].body]}
                 ELSE {seen}
    /\ UNCHANGED <<name, bindEnv, pc, sock, exitCode, url_map>>

Next ==
    \/ ImportDone
    \/ Run
    \/ Terminate
    \/ \E i \in Slots, m \in Methods, p \in Paths : ReceiveSocket(i, m, p)
    \/ \E m \in Methods, p \in Paths : ReceiveTest(m, p)
    \/ \E i \in Slots : Dispatch(i)
    \/ \E i \in Slots : Discard(i)

Spec == Init /\ [][Next]_vars

(* Each request is handled by a thread of its own (or by the caller of *)
(* the test client), which keeps running.                              *)
FairSpec ==
    /\ Spec
    /\ \A i \in Slots : WF_vars(Dispatch(i))

----------------------------------------------------------------------------
(* Properties *)

Done(i) == reqs[i].stage = "done"

Is(i, m, p) == reqs[i].stage # "idle" /\ reqs[i].method = m /\ reqs[i].path = p

(* b"Hello World!" *)
HelloWorldBytes == <<72, 101, 108, 108, 111, 32, 87, 111, 114, 108, 100, 33>>

(* space, tab, line feed, vertical tab, form feed, carriage return *)
Whitespace == {32, 9, 10, 11, 12, 13}

(* The response a request gets when it is the only one the application *)
(* ever handles.                                                        *)
Alone(m, p) == FullDispatch(m, MatchRequest(RouteTable, m, p))

(* C1: every answered GET / has status 200 and a body that is exactly the *)
(* twelve bytes of "Hello World!", with no whitespace at either end.      *)
C1_RootGetHello ==
    \A i \in Slots :
        Done(i) /\ Is(i, "GET", "/") =>
            /\ reqs[i].status = 200
            /\ reqs[i].body = HelloWorldBytes
            /\ Len(reqs[i].body) = 12
            /\ reqs[i].body[1] \notin Whitespace
            /\ reqs[i].body[Len(reqs[i].body)] \notin Whitespace

C1_Witness == \E i \in Slots : Done(i) /\ Is(i, "GET", "/") /\ reqs[i].invoked

C3_NonGetRootIs405 ==
    \A i \in Slots :
        Done(i) /\ reqs[i].path = "/" /\ reqs[i].method # "GET" =>
            reqs[i].status = 405

(* C3 amended: every answered request to "/" whose method is none of GET, *)
(* HEAD and OPTIONS has status 405; HEAD / and OPTIONS / are answered 200 *)
(* with an empty body.                                                    *)
C3_UnlistedMethodRootIs405 ==
    \A i \in Slots :
        Done(i) /\ reqs[i].path = "/" =>
            /\ reqs[i].method \notin {"GET", "HEAD", "OPTIONS"} =>
                   reqs[i].status = 405
            /\ reqs[i].method \in {"HEAD", "OPTIONS"} =>
                   reqs[i].status = 200 /\ reqs[i].body = <<>>

C3_Witness ==
    \E i \in Slots : Done(i) /\ Is(i, "POST", "/") /\ reqs[i].status = 405

C5_SameRequestSameResponse ==
    seen # None =>
        \A i \in Slots :
            Done(i) /\ Is(i, seen.method, seen.path) =>
                reqs[i].status = seen.status /\ reqs[i].body = seen.body

C5_Witness ==
    /\ seen # None
    /\ seen.method = "GET" /\ seen.path = "/"
    /\ \E i \in Slots : Done(i) /\ Is(i, "GET", "/")
    /\ \E j \in Slots : Done(j) /\ Is(j, "POST", "/missing")

(* C6: the process serves only as the main program, on 0.0.0.0:5000; the *)
(* main program with a free address goes from start to serving; and a    *)
(* serving process stays serving with that socket unless it is           *)
(* terminated from outside.                                              *)
C6_ServesUntilTerminated ==
    /\ [](pc = "serving" =>
            name = "__main__" /\ sock = [host |-> "0.0.0.0", port |-> 5000])
    /\ [][pc = "boot" /\ name = "__main__" /\ bindEnv = "ok" => pc' = "serving"]_vars
    /\ [][pc = "serving" =>
            (pc' = "serving" /\ sock' = sock) \/ pc' = "terminated"]_vars

C6_Witness ==
    /\ pc = "serving"
    /\ \E i \in Slots : Done(i) /\ Is(i, "GET", "/") /\ reqs[i].status = 200

(* C7: when the main program cannot bind, the process never serves, has *)
(* no socket, handles no request, and exits with a non-zero status.     *)
C7_BindFailureIsFatal ==
    name = "__main__" /\ bindEnv # "ok" =>
        /\ pc \in {"boot", "exited"}
        /\ sock = None
        /\ \A i \in Slots : reqs[i] = Idle
        /\ pc = "exited" => exitCode # <<>> /\ exitCode[1] # 0

C7_Witness == pc = "exited" /\ bindEnv = "in_use" /\ exitCode = <<1>>

(* C8: in a process that imported the module no socket is ever open and  *)
(* the server never runs, and a request answered through the test client *)
(* has the status and body of the route dispatch.                        *)
C8_TestClientOpensNoSocket ==
    /\ name # "__main__" => sock = None /\ pc \in {"boot", "imported"}
    /\ sock # None => name = "__main__"
    /\ pc = "imported" =>
           \A i \in Slots :
               Done(i) =>
                   /\ reqs[i].status = Alone(reqs[i].method, reqs[i].path).status
                   /\ reqs[i].body = Alone(reqs[i].method, reqs[i].path).body

C8_Witness ==
    /\ pc = "imported"
    /\ sock = None
    /\ Done(1) /\ Is(1, "GET", "/") /\ reqs[1].status = 200

(* C9: a GET / whose context was pushed is eventually answered (unless  *)
(* the process is terminated from outside first); its answer is never a *)
(* 5xx; and the step that answers it leaves the route table and the     *)
(* socket as they were.                                                 *)
C9_HandlerTotal ==
    /\ \A i \in Slots :
           (reqs[i].stage = "matched" /\ Is(i, "GET", "/"))
               ~> (Done(i) \/ pc = "terminated")
    /\ [](\A i \in Slots : Done(i) /\ Is(i, "GET", "/") => reqs[i].status < 500)
    /\ [][\A i \in Slots :
              reqs[i].stage = "matched" /\ Is(i, "GET", "/") /\ reqs'[i].stage = "done"
                  => url_map' = url_map /\ sock' = sock]_vars

C9_Witness ==
    \E i \in Slots :
        /\ Done(i) /\ Is(i, "GET", "/") /\ reqs[i].status = 200
        /\ url_map = RouteTable

(* C10: whatever else is in flight, an answered request has exactly the  *)
(* response it gets when handled alone, and a step of one request leaves *)
(* every other request and the route table untouched.                    *)
C10_Reentrant ==
    /\ [](\A i \in Slots :
            Done(i) =>
                /\ reqs[i].status = Alone(reqs[i].method, reqs[i].path).status
                /\ reqs[i].body = Alone(reqs[i].method, reqs[i].path).body
                /\ reqs[i].invoked = Alone(reqs[i].method, reqs[i].path).invoked)
    /\ [][\A i \in Slots :
              reqs'[i] # reqs[i] =>
                  /\ \A j \in Slots \ {i} : reqs'[j] = reqs[j]
                  /\ url_map' = url_map]_vars

C10_Witness ==
    \E i, j \in Slots :
        /\ i # j
        /\ Done(i) /\ Is(i, "GET", "/") /\ reqs[i].status = 200
        /\ reqs[j].stage = "matched" /\ Is(j, "POST", "/missing")

====
